---------------------------- MODULE Spec2Model ----------------------------
(***************************************************************************)
(* A model of the BPM numerical core of jwt625/BPM:                        *)
(*                                                                         *)
(*   - bpm/core.py         run_bpm, compute_dE_dz  (RK4 marching)          *)
(*   - bpm/mode_solver.py  slab_mode_source        (slab mode launch field)*)
(*   - app.py              run_waveguide           (the caller)            *)
(*                                                                         *)
(* Arithmetic.  The field samples are complex floating point numbers.  The *)
(* model keeps every arithmetic step of the source (roll, Laplacian, the   *)
(* three terms, the four RK4 stages and their weighted sum) and interprets *)
(* +, -, *, / and the imaginary unit in the finite field Z/13, where 5 is  *)
(* a square root of -1 and 2 and 6 are invertible.                         *)
(***************************************************************************)
EXTENDS Integers, Sequences, FiniteSets, TLC

VARIABLES
    \* ---- bpm/core.py: module globals and the arguments of run_bpm
    laplacian_factor, index_factor,
    E, n_r2, x, x_ndim, z, dx, dz, n0, sigma_x, wavelength,
    \* ---- run_bpm: locals and position
    pc, k0, Nz, zi, E_prev, n_r2_slice, k1, k2, k3, k4, err, ret,
    \* ---- observation of one run_bpm call (not program state)
    E_in, writes, e_reads, n_reads, steps,
    \* ---- observation of the caller's session
    calls, probes, log,
    \* ---- bpm/mode_solver.py: remaining arguments of slab_mode_source
    w, n_WG, ind_m, x0,
    \* ---- slab_mode_source: the dispersion profile seen by f_even / f_odd
    prof,
    \* ---- slab_mode_source: locals and position
    mpc, f_even_vals, f_odd_vals, i, even_intervals, odd_intervals,
    ib, b_left, b_right, b_mid, iter, cur, root,
    even_roots, odd_roots, modes_sorted, warnings, merr, E_mode,
    \* ---- observation of one refine_root call (not program state)
    b_init, none_seen, scanned, refined, asked

bpmVars == <<laplacian_factor, index_factor, E, n_r2, dx, dz, sigma_x, z,
             pc, Nz, zi, E_prev, n_r2_slice, k1, k2, k3, k4, err, ret,
             E_in, writes, e_reads, n_reads, steps, calls, probes, log>>

modeVars == <<w, n_WG, ind_m, x0, prof,
              mpc, f_even_vals, f_odd_vals, i, even_intervals, odd_intervals,
              ib, b_left, b_right, b_mid, iter, cur, root,
              even_roots, odd_roots, modes_sorted, warnings, merr, E_mode,
              b_init, none_seen, scanned, refined, asked>>

sharedVars == <<x, x_ndim, n0, wavelength, k0>>

vars == <<bpmVars, modeVars, sharedVars>>

None == "None"

-----------------------------------------------------------------------------
(***************************************************************************)
(* Bounds of the model.                                                    *)
(***************************************************************************)
\* transverse grid points of the field array (Nx)
MaxNx == 3
\* largest len(z)
MaxNz == 3
\* run_bpm calls in one session of the caller
MaxCalls == 2
\* direct compute_dE_dz calls by the caller in one session
MaxProbes == 1
\* samples of the beta scan (the source scans N = 2000, mode_solver.py:121)
N == 6
\* representable beta values from one scan sample to the next
W == 8
\* events (roots and branch boundaries) of a dispersion profile
MaxEvents == 7
\* representable beta values on each side of a root where |f| < 1e-9
TolR == 1
\* representable beta values on each side of a cot pole where |sin| < 1e-12
SinZone == 1
\* representable beta values over which theta falls from pi/2 to pi/2 - 0.1
ZoneW == 6
\* iterations of refine_root
MaxIter == 50

-----------------------------------------------------------------------------
(***************************************************************************)
(* Arithmetic in Z/13.                                                     *)
(***************************************************************************)
Fld(a) == a % 13
Add(a, b) == Fld(a + b)
Sub(a, b) == Fld(a - b)
Mul(a, b) == Fld(a * b)
Inv(a) == CHOOSE r \in 1..12 : Fld(a * r) = 1
Div(a, b) == Mul(a, Inv(b))
\* 1j
ImagUnit == Fld(5)
\* 2 * np.pi
TwoPi == Fld(6)

(***************************************************************************)
(* numpy 1-D arrays: functions on 0..n-1.  Binary operations broadcast a   *)
(* length-1 operand; any other length mismatch is a ValueError.            *)
(***************************************************************************)
Size(v) == Cardinality(DOMAIN v)
Max2(a, b) == IF a >= b THEN a ELSE b
Broadcastable(a, b) == a = b \/ a = 1 \/ b = 1
At(v, j) == IF Size(v) = 1 THEN v[0] ELSE v[j]
VAdd(a, b) == [j \in 0..(Max2(Size(a), Size(b)) - 1) |-> Add(At(a, j), At(b, j))]
VMul(a, b) == [j \in 0..(Max2(Size(a), Size(b)) - 1) |-> Mul(At(a, j), At(b, j))]
VScale(c, a) == [j \in DOMAIN a |-> Mul(c, a[j])]
VShift(a, c) == [j \in DOMAIN a |-> Add(a[j], c)]
\* np.roll(a, s, axis=0): element j of the result is a[j - s]
Roll(a, s) == [j \in DOMAIN a |-> a[(j - s) % Size(a)]]

\* column c of a 2-D array A[:, c]; a 2-D array is a function column -> 1-D array
NCols(A) == Cardinality(DOMAIN A)


-----------------------------------------------------------------------------
(***************************************************************************)
(* bpm/core.py                                                             *)
(***************************************************************************)

\* compute_dE_dz can be evaluated: every binary operation finds operands it
\* can broadcast (lines 16-18)
DerivShapesOK(E_slice, n_slice, sig) ==
    /\ Broadcastable(Size(n_slice), Size(E_slice))
    /\ Broadcastable(Size(sig), Size(E_slice))
    /\ Broadcastable(Max2(Size(n_slice), Size(E_slice)),
                     Max2(Size(sig), Size(E_slice)))

\* line 14
Laplacian(E_slice, dxx) ==
    LET sum == VAdd(VAdd(Roll(E_slice, 1), VScale(Fld(-2), E_slice)),
                    Roll(E_slice, -1))
    IN  VScale(Inv(Mul(dxx, dxx)), sum)

\* lines 7-18
compute_dE_dz(E_slice, n_slice, dxx, n00, sig, kk) ==
    LET laplacian_E    == Laplacian(E_slice, dxx)
        laplacian_term == VScale(Div(ImagUnit, Mul(2, Mul(kk, n00))), laplacian_E)
        index_term     == VScale(Mul(ImagUnit, Div(kk, Mul(2, n00))),
                                 VMul(VShift(n_slice, Fld(-Mul(n00, n00))), E_slice))
        damping_term   == VScale(Fld(-1), VMul(sig, E_slice))
    IN  VAdd(VAdd(laplacian_term, index_term), damping_term)

\* the index map sampled at the step's own position
IndexColumnAhead(zz) == zz

\* the column of n_r2 that step zi samples (line 40)
IndexColumn(zz) == zz - 1

\* the column of E that step zi starts from (line 39)
FieldColumn(zz) == zz - 1

\* the result stored through the view E_prev
TargetColumnPrev(zz) == zz - 1

\* the column that step zi assigns (line 45)
TargetColumn(zz) == zz

\* the run is inside the body of run_bpm
Running == pc \in {"for", "slice", "k1", "k2", "k3", "k4", "write", "return"}

RaiseBpm(kind) ==
    /\ pc' = "raised"
    /\ err' = kind

callFrame == <<k0, Nz, zi, E_prev, n_r2_slice, k1, k2, k3, k4>>
callArgs  == <<n_r2, x, x_ndim, z, dx, dz, n0, sigma_x, wavelength>>
globals   == <<laplacian_factor, index_factor>>
session   == <<calls, probes, log>>
observed  == <<E_in, writes, e_reads, n_reads, steps>>

\* what the caller passed, as one value
Inputs(EE) ==
    [E |-> EE, n_r2 |-> n_r2, x |-> x, z |-> z, dx |-> dx, dz |-> dz,
     n0 |-> n0, sigma_x |-> sigma_x, wavelength |-> wavelength]

\* k0 kept in the module placeholder from one call to the next
EnterCaching ==
    /\ pc = "idle"
    /\ calls < MaxCalls
    /\ calls' = calls + 1
    /\ index_factor' = "k0"
    /\ k0' = IF calls = 0 THEN Div(TwoPi, wavelength) ELSE Add(k0, 1)
    /\ Nz' = Size(z)
    /\ zi' = 1
    /\ pc' = "for"
    /\ E_in' = Inputs(E)
    /\ writes' = [c \in DOMAIN E |-> 0]
    /\ e_reads' = {}
    /\ n_reads' = {}
    /\ steps' = 0
    /\ err' = "none"
    /\ ret' = None
    /\ UNCHANGED <<E, E_prev, n_r2_slice, k1, k2, k3, k4, callArgs,
                   laplacian_factor, probes, log, modeVars>>

\* run_bpm is entered: lines 36-37
Enter ==
    /\ pc = "idle"
    /\ calls < MaxCalls
    /\ calls' = calls + 1
    /\ k0' = Div(TwoPi, wavelength)
    /\ Nz' = Size(z)
    /\ zi' = 1
    /\ pc' = "for"
    /\ E_in' = Inputs(E)
    /\ writes' = [c \in DOMAIN E |-> 0]
    /\ e_reads' = {}
    /\ n_reads' = {}
    /\ steps' = 0
    /\ err' = "none"
    /\ ret' = None
    /\ UNCHANGED <<E, E_prev, n_r2_slice, k1, k2, k3, k4, callArgs, globals,
                   probes, log, modeVars>>

\* line 38: for zi in range(1, Nz)
LoopHead ==
    /\ pc = "for"
    /\ pc' = IF zi < Nz THEN "slice" ELSE "return"
    /\ UNCHANGED <<E, callFrame, err, ret, callArgs, globals, session, observed,
                   modeVars>>

\* lines 39-40: E_prev and n_r2_slice are views of one column each
TakeSlices ==
    /\ pc = "slice"
    /\ IF FieldColumn(zi) \notin DOMAIN E \/ IndexColumn(zi) \notin DOMAIN n_r2
       THEN /\ RaiseBpm("IndexError")
            /\ UNCHANGED <<E_prev, n_r2_slice>>
       ELSE /\ pc' = "k1"
            /\ E_prev' = FieldColumn(zi)
            /\ n_r2_slice' = IndexColumn(zi)
            /\ UNCHANGED err
    /\ UNCHANGED <<E, k0, Nz, zi, k1, k2, k3, k4, ret, callArgs, globals, session,
                   observed, modeVars>>

\* one RK4 stage: dz * compute_dE_dz(E_prev + incr, n_r2_slice, ...)
Stage(incr) ==
    VScale(dz, compute_dE_dz(VAdd(E[E_prev], incr), n_r2[n_r2_slice],
                             dx, n0, sigma_x, k0))

StageOK(incr) ==
    /\ Broadcastable(Size(E[E_prev]), Size(incr))
    /\ DerivShapesOK(VAdd(E[E_prev], incr), n_r2[n_r2_slice], sigma_x)

Zero1 == [j \in 0..0 |-> 0]

Observe ==
    /\ e_reads' = e_reads \cup {E_prev}
    /\ n_reads' = n_reads \cup {n_r2_slice}
    /\ UNCHANGED <<E_in, writes, steps>>

\* line 41
StageK1 ==
    /\ pc = "k1"
    /\ IF StageOK(Zero1)
       THEN /\ k1' = Stage(Zero1)
            /\ pc' = "k2"
            /\ UNCHANGED err
       ELSE /\ RaiseBpm("ValueError")
            /\ UNCHANGED k1
    /\ Observe
    /\ UNCHANGED <<E, k0, Nz, zi, E_prev, n_r2_slice, k2, k3, k4, ret, callArgs,
                   globals, session, modeVars>>

\* line 42
StageK2 ==
    /\ pc = "k2"
    /\ IF StageOK(VScale(Inv(2), k1))
       THEN /\ k2' = Stage(VScale(Inv(2), k1))
            /\ pc' = "k3"
            /\ UNCHANGED err
       ELSE /\ RaiseBpm("ValueError")
            /\ UNCHANGED k2
    /\ Observe
    /\ UNCHANGED <<E, k0, Nz, zi, E_prev, n_r2_slice, k1, k3, k4, ret, callArgs,
                   globals, session, modeVars>>

\* line 43
StageK3 ==
    /\ pc = "k3"
    /\ IF StageOK(VScale(Inv(2), k2))
       THEN /\ k3' = Stage(VScale(Inv(2), k2))
            /\ pc' = "k4"
            /\ UNCHANGED err
       ELSE /\ RaiseBpm("ValueError")
            /\ UNCHANGED k3
    /\ Observe
    /\ UNCHANGED <<E, k0, Nz, zi, E_prev, n_r2_slice, k1, k2, k4, ret, callArgs,
                   globals, session, modeVars>>

\* line 44
StageK4 ==
    /\ pc = "k4"
    /\ IF StageOK(k3)
       THEN /\ k4' = Stage(k3)
            /\ pc' = "write"
            /\ UNCHANGED err
       ELSE /\ RaiseBpm("ValueError")
            /\ UNCHANGED k4
    /\ Observe
    /\ UNCHANGED <<E, k0, Nz, zi, E_prev, n_r2_slice, k1, k2, k3, ret, callArgs,
                   globals, session, modeVars>>

\* the right-hand side of line 45
NextColumn ==
    VAdd(E[E_prev],
         VScale(Inv(6), VAdd(VAdd(k1, VScale(2, k2)), VAdd(VScale(2, k3), k4))))

\* line 45: E[:, zi] = ...
WriteColumn ==
    /\ pc = "write"
    /\ IF TargetColumn(zi) \notin DOMAIN E
       THEN /\ RaiseBpm("IndexError")
            /\ UNCHANGED <<E, zi, writes, steps>>
       ELSE IF Size(NextColumn) # 1 /\ Size(NextColumn) # Size(E[TargetColumn(zi)])
       THEN /\ RaiseBpm("ValueError")
            /\ UNCHANGED <<E, zi, writes, steps>>
       ELSE /\ E' = [E EXCEPT ![TargetColumn(zi)] =
                        [j \in DOMAIN E[TargetColumn(zi)] |-> At(NextColumn, j)]]
            /\ writes' = [writes EXCEPT ![TargetColumn(zi)] = @ + 1]
            /\ steps' = steps + 1
            /\ zi' = zi + 1
            /\ pc' = "for"
            /\ UNCHANGED err
    /\ e_reads' = e_reads \cup {E_prev}
    /\ UNCHANGED <<k0, Nz, E_prev, n_r2_slice, k1, k2, k3, k4, ret, callArgs,
                   globals, session, E_in, n_reads, modeVars>>

\* line 46: return E (the caller's array, not a copy)
Return ==
    /\ pc = "return"
    /\ pc' = "returned"
    /\ ret' = "E"
    /\ log' = Append(log, [in |-> E_in, out |-> E])
    /\ UNCHANGED <<E, callFrame, err, callArgs, globals, calls, probes, observed,
                   modeVars>>


-----------------------------------------------------------------------------
(***************************************************************************)
(* The caller (app.py, run_waveguide): builds the arrays, calls run_bpm,   *)
(* and may call again.                                                     *)
(***************************************************************************)

\* np.linspace grids, as index -> coordinate
Grid(n) == [j \in 0..(n - 1) |-> j]

\* launch columns E0 (line 27: E[:, 0] = E0)
Launch(n) == { [j \in 0..(n - 1) |-> IF j = 0 THEN 1 ELSE 0],
               [j \in 0..(n - 1) |-> IF j = 0 THEN 1 ELSE IF j = 1 THEN 2 ELSE 0] }

\* what the array holds beside column 0 before the call (line 26 zero-fills it)
Fill == {0, 7}

\* lines 26-27: an (rows x cols) array filled with f, column 0 set to e0
NewField(rows, cols, e0, f) ==
    [c \in 0..(cols - 1) |-> [j \in 0..(rows - 1) |-> IF c = 0 THEN At(e0, j) ELSE f]]

\* index-squared maps: uniform background, or a core that moves with z
IndexMaps(rows, cols) ==
    { [c \in 0..(cols - 1) |-> [j \in 0..(rows - 1) |-> 1]],
      [c \in 0..(cols - 1) |-> [j \in 0..(rows - 1) |->
                                   IF j = c % rows THEN 4 ELSE 1]] }

\* damping profiles: none, or rising at the two edges
Dampings(rows) ==
    { [j \in 0..(rows - 1) |-> 0],
      [j \in 0..(rows - 1) |-> IF j = 0 \/ j = rows - 1 THEN 1 ELSE 0] }

\* the shapes agree as the contract of run_bpm asks
WellFormed ==
    /\ NCols(E) = Size(z)
    /\ NCols(n_r2) = Size(z)
    /\ \A c \in DOMAIN E : Size(E[c]) = Size(x)
    /\ \A c \in DOMAIN n_r2 : Size(n_r2[c]) = Size(x)
    /\ Size(sigma_x) = Size(x)

InitFrame ==
    /\ laplacian_factor = None
    /\ index_factor = None
    /\ pc = "idle"
    /\ k0 = None
    /\ Nz = None
    /\ zi = None
    /\ E_prev = None
    /\ n_r2_slice = None
    /\ k1 = None
    /\ k2 = None
    /\ k3 = None
    /\ k4 = None
    /\ err = "none"
    /\ ret = None
    /\ E_in = None
    /\ writes = None
    /\ e_reads = {}
    /\ n_reads = {}
    /\ steps = 0
    /\ calls = 0
    /\ probes = 0
    /\ log = <<>>
    /\ dx = 1
    /\ x_ndim = 1
    /\ n0 = 1
    /\ wavelength = 1

\* arrays as run_waveguide builds them, over several grids and contents
InitConforming ==
    \E nz \in 0..MaxNz, f \in Fill :
        /\ x = Grid(MaxNx)
        /\ z = Grid(nz)
        /\ E \in { NewField(MaxNx, nz, e0, f) : e0 \in Launch(MaxNx) }
        /\ n_r2 \in IndexMaps(MaxNx, nz)
        /\ sigma_x \in Dampings(MaxNx)
        /\ dz \in {1, 2}

\* arrays whose shapes a caller got wrong
InitAnyShape ==
    \E nz \in 1..MaxNz, ec \in 1..(MaxNz + 1), nc \in 1..(MaxNz + 1),
       er \in {1, MaxNx}, nr \in {1, MaxNx - 1, MaxNx},
       sr \in {1, MaxNx, MaxNx + 1}, xr \in {MaxNx, MaxNx + 1} :
        /\ ec \in {nz - 1, nz, nz + 1}
        /\ nc \in {nz - 1, nz, nz + 1}
        /\ x = Grid(xr)
        /\ z = Grid(nz)
        /\ E = NewField(er, ec, [j \in 0..(er - 1) |-> IF j = 0 THEN 1 ELSE 0], 0)
        /\ n_r2 = [c \in 0..(nc - 1) |-> [j \in 0..(nr - 1) |->
                                             IF j = c % nr THEN 4 ELSE 1]]
        /\ sigma_x = [j \in 0..(sr - 1) |-> IF j = 0 \/ j = sr - 1 THEN 1 ELSE 0]
        /\ dz = 1

\* the caller passes the array it got back to run_bpm again
Reuse ==
    /\ pc = "returned"
    /\ calls < MaxCalls
    /\ pc' = "idle"
    /\ UNCHANGED <<E, callFrame, err, ret, callArgs, globals, session, observed,
                   modeVars>>

\* the caller builds a new array around the same launch column (app.py 26-27)
Rebuild ==
    /\ pc = "returned"
    /\ calls < MaxCalls
    /\ NCols(E) > 0
    /\ \E f \in Fill : E' = NewField(Size(E[0]), NCols(E), E_in.E[0], f)
    /\ pc' = "idle"
    /\ UNCHANGED <<callFrame, err, ret, callArgs, globals, session, observed,
                   modeVars>>

\* the caller evaluates compute_dE_dz itself, on a column of its array
Probe ==
    /\ pc = "idle"
    /\ probes < MaxProbes
    /\ WellFormed
    /\ NCols(E) > 0
    /\ \E c \in DOMAIN E :
          compute_dE_dz(E[c], n_r2[c], dx, n0, sigma_x, Div(TwoPi, wavelength))
              \in [DOMAIN E[c] -> 0..12]
    /\ probes' = probes + 1
    /\ UNCHANGED <<E, callFrame, pc, err, ret, callArgs, globals, calls, log,
                   observed, modeVars>>


-----------------------------------------------------------------------------
(***************************************************************************)
(* bpm/mode_solver.py                                                      *)
(*                                                                         *)
(* The propagation constant beta is a floating point number.  The model    *)
(* counts the representable values of the search interval                  *)
(* [n0*k0, n_WG*k0] from 0 to Top; scan sample j is the value j*W.         *)
(*                                                                         *)
(* tan, cot and the square roots are not computed.  What f_even and f_odd  *)
(* return is fixed by where, along beta, the dispersion relation has its   *)
(* events.  With theta = kx*w/2 falling from its maximum at beta = n0*k0   *)
(* to 0 at beta = n_WG*k0, branch m is pi*m/2 <= theta < pi*(m+1)/2; every *)
(* branch that is not empty holds one root, of f_even when m is even and   *)
(* of f_odd when m is odd; the boundary theta = j*pi/2 is a pole of tan    *)
(* (of f_even) when j is odd and of cot (of f_odd) when j is even.  So,    *)
(* going down in beta, the events are root 0, boundary 1, root 1,          *)
(* boundary 2, ... and end with a root.  prof lists their places: event k  *)
(* lies between the representable values prof[k] and prof[k] + 1.          *)
(***************************************************************************)
Top == (N - 1) * W

\* beta_scan (line 122), np.linspace over the search interval
beta_scan(j) == j * W

IsRoot(k) == k % 2 = 1
\* the branch of root event k, the boundary number of boundary event k
BranchOf(k) == (k - 1) \div 2
BoundaryOf(k) == k \div 2

\* floor(2*theta/pi) at beta = b (lines 107 and 118): the boundaries at or above b
BranchIndex(b) ==
    Cardinality({k \in DOMAIN prof : ~ IsRoot(k) /\ b <= prof[k]})

\* the sign of a characteristic function of parity par (0 even, 1 odd) at b:
\* positive from each of its roots down to the next boundary
Positive(par, b) ==
    \E k \in DOMAIN prof :
        /\ IsRoot(k)
        /\ BranchOf(k) % 2 = par
        /\ b <= prof[k]
        /\ (k = Len(prof) \/ b > prof[k + 1])

\* |value| < 1e-9 (line 152): only next to a root of that parity
Small(par, b) ==
    \E k \in DOMAIN prof :
        /\ IsRoot(k)
        /\ BranchOf(k) % 2 = par
        /\ b >= prof[k] + 1 - TolR
        /\ b <= prof[k] + TolR

\* abs(sin_term) < 1e-12 (line 97): next to a pole of cot
SinVanishes(b) ==
    \E k \in DOMAIN prof :
        /\ ~ IsRoot(k)
        /\ BoundaryOf(k) % 2 = 0
        /\ b >= prof[k] + 1 - SinZone
        /\ b <= prof[k] + SinZone

\* a value: its sign times 1 when |value| < 1e-9, times 2 otherwise; 0 stands
\* for the None that f_even and f_odd return where they are undefined
Undefined(v) == v = 0

Value(par, b) ==
    (IF Positive(par, b) THEN 1 ELSE -1) * (IF Small(par, b) THEN 1 ELSE 2)

\* lines 76-85
f_even(b) ==
    IF b <= 0 \/ b >= Top THEN 0 ELSE Value(0, b)

\* lines 87-99
f_odd(b) ==
    IF b <= 0 \/ b >= Top THEN 0
    ELSE IF SinVanishes(b) THEN 0
    ELSE Value(1, b)

\* theta > np.pi / 2 - 0.1 in branch 0 (line 109): within ZoneW of boundary 1
NearCutoff(b) == Len(prof) >= 2 /\ b <= prof[2] + ZoneW

\* lines 101-110
valid_even(b) ==
    IF b >= Top THEN FALSE
    ELSE IF BranchIndex(b) % 2 = 0
         THEN ~ (BranchIndex(b) = 0 /\ NearCutoff(b))
         ELSE FALSE

\* lines 112-119
valid_odd(b) ==
    IF b >= Top THEN FALSE ELSE BranchIndex(b) % 2 = 1

F(par, b) == IF par = "even" THEN f_even(b) ELSE f_odd(b)
Valid(par, b) == IF par = "even" THEN valid_even(b) ELSE valid_odd(b)

\* the midpoint without the factor 0.5
MidNotHalved(l, r) == l + r

\* 0.5 * (b_left + b_right) (line 147), rounded to nearest, ties to even
Mid(l, r) ==
    LET s == l + r
    IN  IF s % 2 = 0 THEN s \div 2
        ELSE IF ((s - 1) \div 2) % 2 = 0 THEN (s - 1) \div 2 ELSE (s + 1) \div 2

\* a Python number: its type and its value; isinstance(v, int) (line 71)
PyInt(n) == [type |-> "int", val |-> n]
PyFloat(n) == [type |-> "float", val |-> n]
IsInt(v) == v.type = "int"

\* the checks without the one on the cladding index
FirstViolationNoCladding ==
    IF x_ndim # 1 THEN "x"
    ELSE IF w <= 0 THEN "w"
    ELSE IF n_WG <= n0 THEN "n_WG"
    ELSE IF wavelength <= 0 THEN "wavelength"
    ELSE IF ~ IsInt(ind_m) \/ ind_m.val < 0 THEN "ind_m"
    ELSE "none"

\* lines 61-72: the first check that fails, by the constraint its message names
FirstViolation ==
    IF x_ndim # 1 THEN "x"
    ELSE IF w <= 0 THEN "w"
    ELSE IF n_WG <= n0 THEN "n_WG"
    ELSE IF n0 <= 0 THEN "n0"
    ELSE IF wavelength <= 0 THEN "wavelength"
    ELSE IF ~ IsInt(ind_m) \/ ind_m.val < 0 THEN "ind_m"
    ELSE "none"

solverLocals == <<f_even_vals, f_odd_vals, i, even_intervals, odd_intervals,
                  ib, b_left, b_right, b_mid, iter, cur, root,
                  even_roots, odd_roots, modes_sorted, warnings, E_mode,
                  b_init, none_seen, scanned, refined>>
solverArgs == <<x, x_ndim, w, n_WG, n0, wavelength, x0, prof, asked>>

\* lines 59-74
Validate ==
    /\ mpc = "start"
    /\ IF FirstViolation # "none"
       THEN /\ mpc' = "raised"
            /\ merr' = FirstViolation
            /\ UNCHANGED k0
       ELSE /\ mpc' = "sample"
            /\ k0' = Div(TwoPi, wavelength)
            /\ UNCHANGED merr
    /\ UNCHANGED <<solverLocals, solverArgs, ind_m, bpmVars>>

\* lines 121-126
Sample ==
    /\ mpc = "sample"
    /\ f_even_vals' = [j \in 0..(N - 1) |-> f_even(beta_scan(j))]
    /\ f_odd_vals' = [j \in 0..(N - 1) |-> f_odd(beta_scan(j))]
    /\ even_intervals' = <<>>
    /\ odd_intervals' = <<>>
    /\ i' = 0
    /\ mpc' = "scan"
    /\ UNCHANGED <<ib, b_left, b_right, b_mid, iter, cur, root, even_roots,
                   odd_roots, modes_sorted, warnings, E_mode, b_init, none_seen,
                   scanned, refined, merr, k0, solverArgs, ind_m, bpmVars>>

\* both values defined and of opposite sign (lines 128-133, 135-140)
Bracketed(vals, j) ==
    /\ ~ Undefined(vals[j])
    /\ ~ Undefined(vals[j + 1])
    /\ vals[j] * vals[j + 1] < 0

ScanEndShort == N - 2

\* range(N - 1) (line 127): the pairs (i, i + 1) for i below this
ScanEnd == N - 1

\* one pass of the loop of line 127
ScanStep ==
    /\ mpc = "scan"
    /\ i < ScanEnd
    /\ even_intervals' = IF Bracketed(f_even_vals, i)
                         THEN Append(even_intervals, <<beta_scan(i), beta_scan(i + 1)>>)
                         ELSE even_intervals
    /\ odd_intervals' = IF Bracketed(f_odd_vals, i)
                        THEN Append(odd_intervals, <<beta_scan(i), beta_scan(i + 1)>>)
                        ELSE odd_intervals
    /\ i' = i + 1
    /\ scanned' = scanned + 1
    /\ UNCHANGED <<mpc, f_even_vals, f_odd_vals, ib, b_left, b_right, b_mid, iter,
                   cur, root, even_roots, odd_roots, modes_sorted, warnings, E_mode,
                   b_init, none_seen, refined, merr, k0, solverArgs, ind_m, bpmVars>>

\* the loop of line 127 ends; line 161
ScanDone ==
    /\ mpc = "scan"
    /\ i = ScanEnd
    /\ mpc' = "pick"
    /\ cur' = "even"
    /\ ib' = 1
    /\ UNCHANGED <<f_even_vals, f_odd_vals, i, even_intervals, odd_intervals,
                   b_left, b_right, b_mid, iter, root, even_roots, odd_roots,
                   modes_sorted, warnings, E_mode, b_init, none_seen, scanned,
                   refined, merr, k0, solverArgs, ind_m, bpmVars>>

Intervals == IF cur = "even" THEN even_intervals ELSE odd_intervals

\* lines 162 and 167: the next interval of the list, or the end of the list
Pick ==
    /\ mpc = "pick"
    /\ IF ib <= Len(Intervals)
       THEN /\ b_left' = Intervals[ib][1]
            /\ b_right' = Intervals[ib][2]
            /\ b_init' = Intervals[ib]
            /\ b_mid' = None
            /\ iter' = 0
            /\ none_seen' = FALSE
            /\ mpc' = "bisect"
            /\ UNCHANGED <<cur, ib>>
       ELSE /\ IF cur = "even"
               THEN cur' = "odd" /\ ib' = 1 /\ mpc' = "pick"
               ELSE mpc' = "select" /\ UNCHANGED <<cur, ib>>
            /\ UNCHANGED <<b_left, b_right, b_init, b_mid, iter, none_seen>>
    /\ UNCHANGED <<f_even_vals, f_odd_vals, i, even_intervals, odd_intervals, root,
                   even_roots, odd_roots, modes_sorted, warnings, E_mode, scanned,
                   refined, merr, k0, solverArgs, ind_m, bpmVars>>

\* refine_root, lines 146-159: one pass of the loop; the call returns from the
\* pass that finds |val_mid| < 1e-9 and after pass MaxIter
Bisect ==
    /\ mpc = "bisect"
    /\ LET mid == Mid(b_left, b_right)
           val_mid == F(cur, mid)
           val_left == F(cur, b_left)
       IN  /\ b_mid' = mid
           /\ IF Undefined(val_mid)
              THEN /\ b_right' = mid
                   /\ none_seen' = TRUE
                   /\ UNCHANGED b_left
                   /\ iter' = iter + 1
                   /\ IF iter + 1 = MaxIter
                      THEN mpc' = "check" /\ root' = mid
                      ELSE UNCHANGED <<mpc, root>>
              ELSE IF val_mid \in {-1, 1}
              THEN /\ mpc' = "check"
                   /\ root' = mid
                   /\ UNCHANGED <<b_left, b_right, iter, none_seen>>
              ELSE /\ IF Undefined(val_left) \/ val_left * val_mid > 0
                      THEN b_left' = mid /\ UNCHANGED b_right
                      ELSE b_right' = mid /\ UNCHANGED b_left
                   /\ iter' = iter + 1
                   /\ UNCHANGED none_seen
                   /\ IF iter + 1 = MaxIter
                      THEN mpc' = "check" /\ root' = mid
                      ELSE UNCHANGED <<mpc, root>>
    /\ UNCHANGED <<f_even_vals, f_odd_vals, i, even_intervals, odd_intervals, ib,
                   cur, even_roots, odd_roots, modes_sorted, warnings, E_mode,
                   b_init, scanned, refined, merr, k0, solverArgs, ind_m, bpmVars>>

\* lines 164-165 and 169-170
Check ==
    /\ mpc = "check"
    /\ IF cur = "even"
       THEN /\ even_roots' = IF valid_even(root) THEN Append(even_roots, root)
                             ELSE even_roots
            /\ UNCHANGED odd_roots
       ELSE /\ odd_roots' = IF valid_odd(root) THEN Append(odd_roots, root)
                            ELSE odd_roots
            /\ UNCHANGED even_roots
    /\ ib' = ib + 1
    /\ refined' = refined + 1
    /\ mpc' = "pick"
    /\ UNCHANGED <<f_even_vals, f_odd_vals, i, even_intervals, odd_intervals,
                   b_left, b_right, b_mid, iter, cur, root, modes_sorted, warnings,
                   E_mode, b_init, none_seen, scanned, merr, k0, solverArgs, ind_m,
                   bpmVars>>

\* sorted(modes, key=beta, reverse=True) (line 173): a stable sort
RECURSIVE InsertDesc(_, _)
InsertDesc(sorted, m) ==
    IF sorted = <<>> THEN <<m>>
    ELSE IF Head(sorted)[2] >= m[2] THEN <<Head(sorted)>> \o InsertDesc(Tail(sorted), m)
    ELSE <<m>> \o sorted

RECURSIVE SortDesc(_)
SortDesc(ms) ==
    IF ms = <<>> THEN <<>>
    ELSE InsertDesc(SortDesc(SubSeq(ms, 1, Len(ms) - 1)), ms[Len(ms)])

\* line 172
Modes ==
    [k \in 1..Len(even_roots) |-> <<"even", even_roots[k]>>]
        \o [k \in 1..Len(odd_roots) |-> <<"odd", odd_roots[k]>>]

Abs(v) == IF v < 0 THEN -v ELSE v
Sign(v) == IF v < 0 THEN -1 ELSE IF v > 0 THEN 1 ELSE 0

\* lines 191-208: one sample of the profile.  cos is even and sin is odd in
\* xp, so a sample is the function used, its sign, and |xp|
FieldAt(parity, xp) ==
    IF parity = "even"
    THEN IF 2 * Abs(xp) <= w
         THEN [fn |-> "cos", sgn |-> 1, a |-> Abs(xp)]
         ELSE [fn |-> "cos*exp", sgn |-> 1, a |-> Abs(xp)]
    ELSE IF 2 * Abs(xp) <= w
         THEN [fn |-> "sin", sgn |-> Sign(xp), a |-> Abs(xp)]
         ELSE [fn |-> "sin*exp", sgn |-> Sign(xp), a |-> Abs(xp)]

ClampToFirst(ind, n) == IF ind >= n THEN 0 ELSE ind

\* lines 176-182: an index beyond the modes found becomes the last index
Clamp(ind, n) == IF ind >= n THEN n - 1 ELSE ind

\* lines 172-211: choose the mode, build and normalise its field
Select ==
    /\ mpc = "select"
    /\ modes_sorted' = SortDesc(Modes)
    /\ IF Len(modes_sorted') = 0
       THEN /\ mpc' = "raised"
            /\ merr' = "no guided modes"
            /\ UNCHANGED <<warnings, ind_m, E_mode>>
       ELSE /\ warnings' = IF ind_m.val >= Len(modes_sorted') THEN warnings + 1
                           ELSE warnings
            /\ ind_m' = PyInt(Clamp(ind_m.val, Len(modes_sorted')))
            /\ LET chosen == modes_sorted'[ind_m'.val + 1]
               IN  E_mode' = [parity |-> chosen[1],
                              beta |-> chosen[2],
                              unit_power |-> TRUE,
                              E |-> [j \in DOMAIN x |-> FieldAt(chosen[1], x[j] - x0)]]
            /\ mpc' = "returned"
            /\ UNCHANGED merr
    /\ UNCHANGED <<f_even_vals, f_odd_vals, i, even_intervals, odd_intervals, ib,
                   b_left, b_right, b_mid, iter, cur, root, even_roots, odd_roots,
                   b_init, none_seen, scanned, refined, k0, solverArgs, bpmVars>>

-----------------------------------------------------------------------------
(***************************************************************************)
(* Calls of slab_mode_source.                                              *)
(***************************************************************************)

\* a transverse grid symmetric about 0 (app.py line 17)
SymGrid == [j \in 0..4 |-> j - 2]

\* the places an event can take: two in each scan interval
Slots == { s * W + off : s \in 0..(N - 2), off \in {2, 5} }

RECURSIVE Descending(_)
Descending(S) ==
    IF S = {} THEN <<>>
    ELSE LET m == CHOOSE v \in S : \A u \in S : u <= v
         IN  <<m>> \o Descending(S \ {m})

\* the dispersion profiles: an odd number of events
Profiles ==
    { Descending(S) : S \in { T \in SUBSET Slots :
                                Cardinality(T) % 2 = 1 /\ Cardinality(T) <= MaxEvents } }

ModeFrame ==
    /\ mpc = "start" /\ f_even_vals = None /\ f_odd_vals = None /\ i = None
    /\ even_intervals = <<>> /\ odd_intervals = <<>>
    /\ ib = None /\ b_left = None /\ b_right = None /\ b_mid = None /\ iter = None
    /\ cur = None /\ root = None
    /\ even_roots = <<>> /\ odd_roots = <<>> /\ modes_sorted = <<>>
    /\ warnings = 0 /\ merr = "none" /\ E_mode = None
    /\ b_init = None /\ none_seen = FALSE /\ scanned = 0 /\ refined = 0
    /\ k0 = None
    /\ asked = ind_m

\* valid parameters, every dispersion profile
InitProfiles ==
    /\ x = SymGrid
    /\ x_ndim = 1
    /\ w = 2
    /\ n_WG = 2
    /\ n0 = 1
    /\ wavelength = 1
    /\ x0 = 0
    /\ ind_m \in {PyInt(0), PyInt(2)}
    /\ prof \in Profiles

\* every combination of good and bad parameters, one dispersion profile
InitParameters ==
    /\ x = SymGrid
    /\ x_ndim \in {1, 2}
    /\ w \in {-1, 0, 2}
    /\ n_WG \in {-1, 0, 1, 2}
    /\ n0 \in {-1, 0, 1}
    /\ wavelength \in {-1, 0, 1}
    /\ x0 \in {0, 1}
    /\ ind_m \in {PyInt(-1), PyInt(0), PyInt(2), PyFloat(1)}
    /\ prof = <<3 * W + 2>>

\* run_bpm is not running
BpmOff ==
    /\ laplacian_factor = None /\ index_factor = None
    /\ E = None /\ n_r2 = None /\ z = None /\ dx = None /\ dz = None
    /\ sigma_x = None
    /\ pc = "off" /\ Nz = None /\ zi = None /\ E_prev = None /\ n_r2_slice = None
    /\ k1 = None /\ k2 = None /\ k3 = None /\ k4 = None /\ err = "none" /\ ret = None
    /\ E_in = None /\ writes = None /\ e_reads = {} /\ n_reads = {} /\ steps = 0
    /\ calls = 0 /\ probes = 0 /\ log = <<>>

InitMode ==
    /\ BpmOff
    /\ (InitProfiles \/ InitParameters)
    /\ ModeFrame

NextMode ==
    \/ Validate
    \/ Sample
    \/ ScanStep
    \/ ScanDone
    \/ Pick
    \/ Bisect
    \/ Check
    \/ Select

SpecMode == InitMode /\ [][NextMode]_vars

\* slab_mode_source is not running
ModeOff ==
    /\ w = None /\ n_WG = None /\ ind_m = None /\ x0 = None /\ prof = None
    /\ mpc = "off" /\ f_even_vals = None /\ f_odd_vals = None /\ i = None
    /\ even_intervals = <<>> /\ odd_intervals = <<>>
    /\ ib = None /\ b_left = None /\ b_right = None /\ b_mid = None /\ iter = None
    /\ cur = None /\ root = None
    /\ even_roots = <<>> /\ odd_roots = <<>> /\ modes_sorted = <<>>
    /\ warnings = 0 /\ merr = "none" /\ E_mode = None
    /\ b_init = None /\ none_seen = FALSE /\ scanned = 0 /\ refined = 0
    /\ asked = None

InitBpm ==
    /\ InitFrame
    /\ ModeOff
    /\ (InitConforming \/ InitAnyShape)

NextBpm ==
    \/ Enter
    \/ LoopHead
    \/ TakeSlices
    \/ StageK1
    \/ StageK2
    \/ StageK3
    \/ StageK4
    \/ WriteColumn
    \/ Return
    \/ Reuse
    \/ Rebuild
    \/ Probe

SpecBpm == InitBpm /\ [][NextBpm]_vars


-----------------------------------------------------------------------------
(***************************************************************************)
(* Properties of run_bpm.                                                  *)
(***************************************************************************)

\* lines 41-45 as one function of the previous field column and index column
RK4Column(col, ncol) ==
    LET d(v) == VScale(dz, compute_dE_dz(v, ncol, dx, n0, sigma_x,
                                         Div(TwoPi, wavelength)))
        a == d(col)
        b == d(VAdd(col, VScale(Inv(2), a)))
        c == d(VAdd(col, VScale(Inv(2), b)))
        e == d(VAdd(col, c))
    IN  VAdd(col, VScale(Inv(6), VAdd(VAdd(a, VScale(2, b)), VAdd(VScale(2, c), e))))

Called == calls > 0

\* C1: run_bpm rejects malformed shapes before marching: with shapes that
\* disagree the call never returns normally and never writes a column of E.
C1_RejectsMalformed ==
    (Called /\ ~ WellFormed) =>
        /\ pc # "returned"
        /\ steps = 0
        /\ (pc \in {"raised"} => E = E_in.E)

\* C3: columns 1..Nz-1 are written once each in increasing order, column zi
\* from column zi-1 of the field and of the index map only; nothing unwritten
\* and no later index column is read; the run ends after Nz-1 steps.
C3_MarchingOrder ==
    (WellFormed /\ (Running \/ pc = "returned")) =>
        /\ \A c \in DOMAIN writes : writes[c] = IF 1 <= c /\ c < zi THEN 1 ELSE 0
        /\ steps = zi - 1
        /\ pc \in {"k1", "k2", "k3", "k4", "write"} =>
              E_prev = zi - 1 /\ n_r2_slice = zi - 1
        /\ e_reads \subseteq {c \in DOMAIN writes : c = 0 \/ writes[c] = 1}
        /\ e_reads \subseteq 0..(zi - 1)
        /\ n_reads \subseteq 0..(zi - 1)
        /\ \A c \in 1..(zi - 1) : E[c] = RK4Column(E[c - 1], n_r2[c - 1])
        /\ pc = "returned" => steps = Max2(Nz - 1, 0) /\ zi = Max2(Nz, 1)

C3_Witness ==
    /\ WellFormed
    /\ pc = "returned"
    /\ Nz >= 3
    /\ steps = Nz - 1
    /\ n_reads = 0..(Nz - 2)

\* C6: two runs with identical inputs give identical outputs whatever was
\* called before, and the module placeholders are never populated.
C6_Deterministic ==
    /\ laplacian_factor = None
    /\ index_factor = None
    /\ \A a \in DOMAIN log, b \in DOMAIN log :
          log[a].in = log[b].in => log[a].out = log[b].out

C6_Witness ==
    /\ Len(log) >= 2
    /\ probes > 0
    /\ log[1].in = log[2].in
    /\ log[1].out # log[1].in.E
    /\ Size(log[1].in.z) >= 3

\* C10: the run works in the caller's array and returns it, leaves column 0
\* and the other arguments alone, depends on E through column 0 only, is
\* idempotent on its own output, and leaves the array untouched when Nz <= 1.
C10_FrameAndIdempotence ==
    /\ pc = "returned" => ret = "E" /\ log[Len(log)].out = E
    /\ Called =>
          /\ Inputs(E) = [E_in EXCEPT !.E = E]
          /\ NCols(E) > 0 => E[0] = E_in.E[0]
    /\ \A a \in DOMAIN log, b \in DOMAIN log :
          (/\ Size(log[a].in.z) = NCols(log[a].in.E)
           /\ NCols(log[a].in.E) > 0
           /\ [log[a].in EXCEPT !.E = 0] = [log[b].in EXCEPT !.E = 0]
           /\ log[a].in.E[0] = log[b].in.E[0])
          => log[a].out = log[b].out
    /\ \A a \in DOMAIN log, b \in DOMAIN log :
          (a < b /\ log[b].in = [log[a].in EXCEPT !.E = log[a].out])
          => log[b].out = log[b].in.E
    /\ (pc = "returned" /\ Nz <= 1) => E = E_in.E /\ steps = 0

C10_Witness ==
    /\ Len(log) >= 2
    /\ log[2].in.E = log[1].out
    /\ log[1].out # log[1].in.E
    /\ log[2].out = log[1].out
    /\ Size(log[1].in.z) >= 3


-----------------------------------------------------------------------------
(***************************************************************************)
(* Properties of slab_mode_source.                                         *)
(***************************************************************************)

\* the preconditions the call was made in breach of
Violated ==
    {c \in {"x", "w", "n_WG", "n0", "wavelength", "ind_m"} :
        \/ c = "x" /\ x_ndim # 1
        \/ c = "w" /\ w <= 0
        \/ c = "n_WG" /\ n_WG <= n0
        \/ c = "n0" /\ n0 <= 0
        \/ c = "wavelength" /\ wavelength <= 0
        \/ c = "ind_m" /\ (asked.type # "int" \/ asked.val < 0)}

\* C2: with any precondition violated the call fails before any computation,
\* whatever the other parameters are, and the error names a violated constraint.
C2_RejectsBadParameters ==
    (mpc \notin {"off", "start"} /\ Violated # {}) =>
        /\ mpc = "raised"
        /\ merr \in Violated
        /\ scanned = 0
        /\ refined = 0
        /\ warnings = 0
        /\ k0 = None
        /\ f_even_vals = None
        /\ f_odd_vals = None
        /\ E_mode = None

C2_Witness ==
    /\ mpc = "raised"
    /\ merr = "n0"
    /\ Violated = {"n0", "ind_m"}

Descends(ms) == \A a \in DOMAIN ms, b \in DOMAIN ms : a < b => ms[a][2] >= ms[b][2]

\* C4: with modes found, an index beyond them gives one warning and the mode
\* of the highest index (smallest beta), never a failure; an index within
\* range gives no warning and the mode at that place of the descending order.
C4_ClampWithWarning ==
    /\ (mpc = "raised" /\ Len(Modes) > 0) => merr # "no guided modes"
    /\ mpc = "returned" =>
          /\ Len(modes_sorted) = Len(Modes)
          /\ {modes_sorted[k] : k \in DOMAIN modes_sorted} = {Modes[k] : k \in DOMAIN Modes}
          /\ Descends(modes_sorted)
          /\ IF asked.val >= Len(modes_sorted)
             THEN /\ warnings = 1
                  /\ E_mode.beta = modes_sorted[Len(modes_sorted)][2]
                  /\ E_mode.parity = modes_sorted[Len(modes_sorted)][1]
                  /\ \A k \in DOMAIN modes_sorted : modes_sorted[k][2] >= E_mode.beta
             ELSE /\ warnings = 0
                  /\ E_mode.beta = modes_sorted[asked.val + 1][2]
                  /\ E_mode.parity = modes_sorted[asked.val + 1][1]

C4_Witness ==
    /\ mpc = "returned"
    /\ asked.val = 2
    /\ Len(modes_sorted) = 2
    /\ warnings = 1
    /\ modes_sorted[1][2] > modes_sorted[2][2]

\* the sample pairs whose values bracket a sign change of parity par
BracketsOf(par) ==
    { <<beta_scan(j), beta_scan(j + 1)>> : j \in
        { jj \in 0..(N - 2) :
            /\ ~ Undefined(F(par, beta_scan(jj)))
            /\ ~ Undefined(F(par, beta_scan(jj + 1)))
            /\ F(par, beta_scan(jj)) * F(par, beta_scan(jj + 1)) < 0 } }

SeqSet(q) == { q[k] : k \in DOMAIN q }

FullScan ==
    /\ scanned = N - 1
    /\ SeqSet(even_intervals) = BracketsOf("even")
    /\ SeqSet(odd_intervals) = BracketsOf("odd")
    /\ refined = Len(even_intervals) + Len(odd_intervals)

\* C5: the no-guided-mode error is raised exactly when no root was validated,
\* and only after all N-1 sample pairs were examined for both functions and
\* every bracket refined and validated; then no warning and no field.
C5_NoModeAfterFullScan ==
    /\ (mpc = "raised" /\ merr = "no guided modes") =>
          /\ Modes = <<>>
          /\ FullScan
          /\ warnings = 0
          /\ E_mode = None
    /\ mpc = "returned" => Modes # <<>> /\ FullScan

C5_Witness ==
    /\ mpc = "raised"
    /\ merr = "no guided modes"
    /\ refined > 0
    /\ asked.val = 2

\* C7: every accepted beta lies strictly inside the search interval and its
\* characteristic function is below the tolerance there; a bracket around a
\* pole of tan or cot never yields an accepted mode.
C7_AcceptedRootsAreRoots ==
    /\ \A k \in DOMAIN even_roots :
          /\ even_roots[k] > 0 /\ even_roots[k] < Top
          /\ f_even(even_roots[k]) \in {-1, 1}
    /\ \A k \in DOMAIN odd_roots :
          /\ odd_roots[k] > 0 /\ odd_roots[k] < Top
          /\ f_odd(odd_roots[k]) \in {-1, 1}

\* E(x) = E(-x) on the grid
Symmetric(fld) ==
    \A a \in DOMAIN x, b \in DOMAIN x : x[a] = -x[b] => fld[a] = fld[b]

\* C8: for a symmetric slab the mode returned for ind_m = 0 is even.
C8_FundamentalIsEven ==
    (mpc = "returned" /\ asked.val = 0 /\ x0 = 0) =>
        /\ E_mode.parity = "even"
        /\ Symmetric(E_mode.E)

OppositeSigns(par, l, r) ==
    /\ ~ Undefined(F(par, l))
    /\ ~ Undefined(F(par, r))
    /\ F(par, l) * F(par, r) < 0

\* a pass of the loop of refine_root that went on to shrink the bracket
Shrinks == mpc = "bisect" /\ iter' = iter + 1

Nested ==
    /\ b_left <= b_left' /\ b_left' <= b_right' /\ b_right' <= b_right
    /\ b_init[1] <= b_left' /\ b_right' <= b_init[2]

StopsInTime ==
    /\ mpc = "bisect" => iter < MaxIter
    /\ mpc = "check" =>
          /\ iter <= MaxIter
          /\ b_init[1] <= root /\ root <= b_init[2]
          /\ iter < MaxIter => F(cur, root) \in {-1, 1}

StopsWhenSmall ==
    (mpc = "bisect" /\ F(cur, Mid(b_left, b_right)) \in {-1, 1}) =>
        mpc' = "check" /\ root' = Mid(b_left, b_right)

\* C9: after every iteration of refine_root the bracket lies in the initial
\* one and has half the width of the previous one, the retained half keeps
\* the sign change whenever the midpoint value is defined, the loop makes at
\* most 50 passes or stops at |value| < 1e-9, and the result lies in the
\* initial bracket.
C9_BisectionHalves ==
    /\ [][Shrinks => /\ Nested
                     /\ 2 * (b_right' - b_left') = b_right - b_left
                     /\ ~ Undefined(F(cur, b_mid')) =>
                            OppositeSigns(cur, b_left', b_right')]_vars
    /\ [][StopsWhenSmall]_vars
    /\ []StopsInTime

\* C9 as amended: the width is at most half the previous width rounded up to
\* a representable value, and the sign change is kept while no midpoint of the
\* call has been undefined.
C9_BisectionShrinks ==
    /\ [][Shrinks => /\ Nested
                     /\ 2 * (b_right' - b_left') <= (b_right - b_left) + 1
                     /\ (~ Undefined(F(cur, b_mid')) /\ ~ none_seen) =>
                            OppositeSigns(cur, b_left', b_right')]_vars
    /\ [][StopsWhenSmall]_vars
    /\ []StopsInTime

C9_Witness ==
    /\ mpc = "check"
    /\ iter = MaxIter
    /\ b_right - b_left = 1
    /\ b_init[2] - b_init[1] = W

=============================================================================
